---- MODULE Spec2Model ----
(***************************************************************************)
(* Allocation engine of MonteCarlo-Portofilo-Optimization: the share       *)
(* quantizer (allocate_whole_shares with its cash sweep), the three        *)
(* allocators (equal weight, greedy proportional, DP knapsack), the        *)
(* whole-share entry points, the return simulator with the Sharpe scorer,  *)
(* and two DP calls whose steps are interleaved.                           *)
(*                                                                         *)
(* Numbers.  Python floats are modelled by exact arithmetic on integers:   *)
(*   - money (budget, prices, cash) is a whole number of currency units;   *)
(*   - a weight map is a function from tickers to integer numerators       *)
(*     together with one common denominator: weight = num / den;           *)
(*   - returns and standard deviations are whole multiples of 0.0277, so   *)
(*     that the risk-free rate RFR = 0.0554 of constants.py is 2;          *)
(*   - a Sharpe ratio x / sqrt(v) is the pair [num |-> x, rad |-> v].      *)
(* A ticker is the position of its key in the dict that holds it (Python   *)
(* dicts iterate in insertion order).                                      *)
(* Comparisons are those of the exact values: two candidates whose Sharpe  *)
(* ratios are equal as real numbers tie here, where the floats of the      *)
(* program may differ in the last bit and so pick either of them.          *)
(* The DP loop is the same code in algorithms/dp_knapsack.py and           *)
(* dp_knapsack.py; the model runs it once and applies the final selection  *)
(* of each file to the table it leaves.                                    *)
(***************************************************************************)
EXTENDS Integers, Sequences, FiniteSets, TLC

(***************************************************************************)
(* Bounds of the model                                                     *)
(***************************************************************************)
MaxQStocks == 2     \* instruments in a quantizer call
WeightDen == 6      \* target weights are multiples of 1 / WeightDen
MaxPrice == 4       \* unit prices are -1 .. MaxPrice, None or missing
MaxBudget == 9      \* budgets are 0 .. MaxBudget
MaxFairBudget == 2  \* budgets of the calls followed to their end under fairness
MaxSweep == 10      \* sweep iterations explored (only a negative price reaches it)
MaxStocks == 5      \* instruments in stocks_metrics
AllOrdersLen == 2   \* universes up to this size are enumerated in every order
MaxSelLen == 2      \* length of a caller-supplied selected_tickers list
ExhaustiveDepth == 3  \* DP iterations whose table is compared with all assignments
MaxWholeStocks == 3 \* instruments given to a whole-share entry point
MaxPairStocks == 1  \* instruments of the small universes given to two interleaved DP calls
MaxHistory == 3     \* rows of a price history
MaxSimMean == 3     \* simulated mean annual returns are -1 .. MaxSimMean (x 0.0277)
MaxSimStd == 2      \* simulated standard deviations are up to MaxSimStd (x 0.0277)

(***************************************************************************)
(* Constants of the program                                                *)
(***************************************************************************)
RFR == 2                          \* 0.0554, in units of 0.0277
DISCRETIZATION_STEPS == 100
MinAllocationInv == 200           \* MIN_ALLOCATION_PER_STOCK = 0.005 = 1 / 200
MaxAllocationInv == 5             \* MAX_ALLOCATION_PER_STOCK = 0.20 = 1 / 5
GreedyMaxAllocationInv == 10      \* MAX_ALLOCATION_PER_STOCK = 0.10 = 1 / 10 (algorithms/greedy.py)
ConcentratedMax == 15             \* "if target_num_stocks <= 15"
WindowUnits == 10                 \* "range(max(0, units - 10), units + 1)"
DefaultTargetNumStocks == 10   \* greedy_whole.py: target_num_stocks=10

(***************************************************************************)
(* Arithmetic helpers                                                      *)
(***************************************************************************)
Abs(x) == IF x < 0 THEN -x ELSE x

Sgn(x) == IF x > 0 THEN 1 ELSE IF x < 0 THEN -1 ELSE 0

Min(a, b) == IF a <= b THEN a ELSE b

Max(a, b) == IF a >= b THEN a ELSE b

Range(q) == {q[i] : i \in DOMAIN q}

RECURSIVE GCD(_, _)
GCD(a, b) == IF b = 0 THEN a ELSE GCD(b, a % b)

RECURSIVE GCDOf(_)
\* The greatest common divisor of a set of naturals (0 for the empty set).
GCDOf(S) == IF S = {} THEN 0 ELSE LET x == CHOOSE y \in S : TRUE IN GCD(x, GCDOf(S \ {x}))

RECURSIVE LCMOf(_)
\* The least common multiple of a set of positive naturals (1 for the empty set).
LCMOf(S) ==
  IF S = {} THEN 1
  ELSE LET x == CHOOSE y \in S : TRUE
           r == LCMOf(S \ {x})
       IN  (x \div GCD(x, r)) * r

\* Python's int(a / b): the quotient truncated toward zero (b # 0).
TruncDiv(a, b) == Sgn(a) * Sgn(b) * (Abs(a) \div Abs(b))

RECURSIVE SumTo(_, _)
\* f[1] + ... + f[n], skipping the indices f is not defined on.
SumTo(n, f) ==
  IF n = 0 THEN 0
  ELSE (IF n \in DOMAIN f THEN f[n] ELSE 0) + SumTo(n - 1, f)

MaxKey(f) == IF DOMAIN f = {} THEN 0 ELSE CHOOSE k \in DOMAIN f : \A j \in DOMAIN f : j <= k

\* sum(d.values()) of a dict with integer values.
SumValues(f) == SumTo(MaxKey(f), f)

RECURSIVE CmpFrac(_, _, _, _)
\* The sign of a/b - c/d for a, c >= 0 and b, d > 0, by continued fractions
\* (no product is formed, so no intermediate value leaves the integer range).
CmpFrac(a, b, c, d) ==
  LET qa == a \div b
      qc == c \div d
      ra == a % b
      rc == c % d
  IN  IF qa # qc THEN (IF qa > qc THEN 1 ELSE -1)
      ELSE IF ra = 0 /\ rc = 0 THEN 0
      ELSE IF ra = 0 THEN -1
      ELSE IF rc = 0 THEN 1
      ELSE CmpFrac(d, rc, b, ra)

(***************************************************************************)
(* Share quantizer: allocate_whole_shares(target_allocations,              *)
(* stock_prices, budget)                                                   *)
(***************************************************************************)
VARIABLES
  target_allocations,  \* ticker -> numerator of the target weight (over WeightDen)
  stock_prices,        \* ticker -> <<>> (None) or <<price>>; a missing key is absent
  budget,
  rule,                \* the file's sweep priority: "weight" or "closeness"
  shares,              \* dict shares
  actual_spent,        \* dict actual_spent
  cash_remaining,
  total_spent,
  sweep_count,
  actual_allocations,  \* dict actual_allocations of the result: spent / total_spent
  qpc                  \* "idle" | "floor" | "sweep" | "done" | "raised"

qvars == <<target_allocations, stock_prices, budget, rule, shares, actual_spent,
           cash_remaining, total_spent, sweep_count, actual_allocations, qpc>>

\* stock_prices.get(ticker): None when the key is missing.
PriceGet(prices, t) == IF t \in DOMAIN prices THEN prices[t] ELSE <<>>

\* The test "price and price > 0" of the floor loop (None and 0 are falsy).
PriceOk(p) == p # <<>> /\ p[1] # 0 /\ p[1] > 0

\* Variant of int(target_amount / price) that rounds up.
NumSharesRoundedUp(w, b, price) == (w * b + WeightDen * price - 1) \div (WeightDen * price)

\* Variant of int(target_amount / price) that buys one share less.
NumSharesOneLess(w, b, price) == TruncDiv(w * b, WeightDen * price) - 1

\* int(target_amount / price) with target_amount = weight * budget.
NumShares(w, b, price) == TruncDiv(w * b, WeightDen * price)

\* Variant of the test that needs the price to be below the cash.
AffordableBelowCash(p, cash) == p # <<>> /\ p[1] # 0 /\ p[1] < cash

\* The test "price and price <= cash_remaining" of the sweep.
Affordable(p, cash) == p # <<>> /\ p[1] # 0 /\ p[1] <= cash

\* The tickers the sweep may buy, in the iteration order of stock_prices.
AffordableStocks(targets, prices, cash) ==
  {t \in DOMAIN prices : t \in DOMAIN targets /\ Affordable(prices[t], cash)}

\* Variant of the pick that takes the last ticker of the highest target weight.
WeightPickLastOfTies(targets, prices, cash) ==
  LET A == AffordableStocks(targets, prices, cash)
  IN  CHOOSE t \in A : \A u \in A : targets[u] < targets[t] \/ (targets[u] = targets[t] /\ t >= u)

\* greedy_whole.py, dp_knapsack.py: affordable_stocks.sort(key=weight, reverse=True)
\* is stable, so [0] is the first ticker of the highest target weight.
WeightPick(targets, prices, cash) ==
  LET A == AffordableStocks(targets, prices, cash)
  IN  CHOOSE t \in A : \A u \in A : targets[u] < targets[t] \/ (targets[u] = targets[t] /\ t <= u)

\* equal_whole.py: error = abs(test_spent / test_total - target_allocation), as
\* the fraction <<numerator, denominator>> with a positive denominator.
ClosenessError(targets, prices, sh, spent, t) ==
  LET price == prices[t][1]
      test_spent == ((IF t \in DOMAIN sh THEN sh[t] ELSE 0) + 1) * price
      test_total == SumValues(spent) + price
  IN  <<Abs(test_spent * WeightDen - targets[t] * test_total), Abs(test_total) * WeightDen>>

\* test_spent / test_total divides by zero for some affordable ticker.
ClosenessRaises(targets, prices, sh, spent, cash) ==
  \E t \in AffordableStocks(targets, prices, cash) : SumValues(spent) + prices[t][1] = 0

\* "if error < best_error": the first ticker of the smallest error.
ClosenessPick(targets, prices, sh, spent, cash) ==
  LET A == AffordableStocks(targets, prices, cash)
      E(t) == ClosenessError(targets, prices, sh, spent, t)
  IN  CHOOSE t \in A :
        \A u \in A :
          LET c == CmpFrac(E(u)[1], E(u)[2], E(t)[1], E(t)[2])
          IN  c = 1 \/ (c = 0 /\ t <= u)

SweepPick(r, targets, prices, sh, spent, cash) ==
  IF r = "weight" THEN WeightPick(targets, prices, cash)
  ELSE ClosenessPick(targets, prices, sh, spent, cash)

\* cash_remaining -= price
CashDeductedTwice(cash, price) == cash - 2 * price

CashAfterBuy(cash, price) == cash - price

\* The while loop runs another iteration that buys a share.
SweepContinues(r, targets, prices, sh, spent, cash) ==
  /\ cash > 0
  /\ AffordableStocks(targets, prices, cash) # {}
  /\ r = "closeness" => ~ClosenessRaises(targets, prices, sh, spent, cash)

\* Variant of the floor loop that buys one share when no price is available.
FloorEntryOneShareWithoutPrice(targets, prices, b, t) ==
  LET price == PriceGet(prices, t)
      n == IF PriceOk(price) THEN NumShares(targets[t], b, price[1]) ELSE 1
  IN  [shares |-> n, spent |-> IF PriceOk(price) THEN n * price[1] ELSE 0]

\* The body of the floor loop for ticker t: its whole shares and their cost.
FloorEntry(targets, prices, b, t) ==
  LET price == PriceGet(prices, t)
      n == IF PriceOk(price) THEN NumShares(targets[t], b, price[1]) ELSE 0
  IN  [shares |-> n, spent |-> IF PriceOk(price) THEN n * price[1] ELSE 0]

\* The body of the sweep loop once a ticker is affordable: one more share.
BuyOneSpentOverwritten(r, targets, prices, sh, spent, cash) ==
  LET t == SweepPick(r, targets, prices, sh, spent, cash)
      price == prices[t][1]
  IN  [shares |-> [sh EXCEPT ![t] = @ + 1],
       actual_spent |-> [spent EXCEPT ![t] = price],
       cash_remaining |-> CashAfterBuy(cash, price)]

BuyOne(r, targets, prices, sh, spent, cash) ==
  LET t == SweepPick(r, targets, prices, sh, spent, cash)
      price == prices[t][1]
  IN  [shares |-> [sh EXCEPT ![t] = @ + 1],
       actual_spent |-> [spent EXCEPT ![t] = (sh[t] + 1) * price],
       cash_remaining |-> CashAfterBuy(cash, price)]

RECURSIVE SweepRun(_, _, _, _, _, _)
\* The whole cash sweep, for a call that returns.
SweepRun(r, targets, prices, sh, spent, cash) ==
  IF SweepContinues(r, targets, prices, sh, spent, cash)
  THEN LET st == BuyOne(r, targets, prices, sh, spent, cash)
       IN  SweepRun(r, targets, prices, st.shares, st.actual_spent, st.cash_remaining)
  ELSE [shares |-> sh, actual_spent |-> spent, cash_remaining |-> cash]

\* {ticker: spent / total_spent if total_spent > 0 else 0}, without the entries
\* that are not > 0: the numerators over the denominator total_spent.
ActualAllocations(spent, b) ==
  LET total == SumValues(spent)
  IN  [num |-> [t \in {u \in DOMAIN spent : total > 0 /\ spent[u] > 0} |-> spent[t]],
       den |-> IF total > 0 THEN total ELSE 1]

\* The result of allocate_whole_shares as a function of its arguments (for a
\* price table without negative prices, on which the sweep ends).
AllocateWholeShares(r, targets, prices, b) ==
  LET fl == [t \in DOMAIN targets |-> FloorEntry(targets, prices, b, t)]
      sh0 == [t \in DOMAIN targets |-> fl[t].shares]
      sp0 == [t \in DOMAIN targets |-> fl[t].spent]
      st == SweepRun(r, targets, prices, sh0, sp0, b - SumValues(sp0))
  IN  [shares |-> [t \in {u \in DOMAIN st.shares : st.shares[u] > 0} |-> st.shares[t]],
       actual_spent |-> st.actual_spent,
       total_spent |-> SumValues(st.actual_spent),
       cash_remaining |-> st.cash_remaining]

(***************************************************************************)
(* Allocators: weight maps, Sharpe ratios, portfolio metrics               *)
(***************************************************************************)
VARIABLES
  stocks_metrics,     \* ticker -> <<mean_annual_return, std_annual_return>>
  target_num_stocks,
  selected_tickers,   \* equal_weight_allocation's argument: <<>> (None) or <<list>>
  apc,                \* the call the driver makes next
  selected,           \* the DP allocator's list of selected tickers
  stock_index,        \* how many of them the DP loop has processed
  dp,                 \* the DP table: units_used -> [score, w]
  greedy_alg,         \* result of algorithms/greedy.py
  greedy_main,        \* result of greedy.py
  dp_alg,             \* result of algorithms/dp_knapsack.py
  dp_main,            \* result of dp_knapsack.py
  equal_res           \* result of equal_weight.py

avars == <<stocks_metrics, target_num_stocks, selected_tickers, apc, selected,
           stock_index, dp, greedy_alg, greedy_main, dp_alg, dp_main, equal_res>>

VARIABLES
  w_metrics,          \* stocks_metrics given to the whole-share entry points
  w_amount,           \* amount: the budget
  w_num,              \* num_stocks / target_num_stocks: <<>> (default) or <<k>>
  w_greedy,           \* result of greedy_whole.greedy_portfolio_allocation
  w_equal,            \* result of equal_whole.equal_weight_allocation
  wpc                 \* the entry point called next

wvars == <<w_metrics, w_amount, w_num, w_greedy, w_equal, wpc>>

VARIABLES
  history,            \* the price history of one instrument (oldest first)
  returns,            \* its daily returns, in units of 1/4
  from_history,       \* the metrics come from the simulation of the history
  metrics,            \* [mean, std] of the annual return; <<>> is NaN, <<v>> is v
  rate,               \* risk_free_rate
  sharpe_ratio,       \* calculate_sharpe_ratio's result: <<>> (NaN) or <<num, den>>
  spc                 \* the step of the simulate-and-score run made next

svars == <<history, returns, from_history, metrics, rate, sharpe_ratio, spc>>

VARIABLES
  p_metrics,          \* stocks_metrics of each of two DP calls in progress
  p_selected,         \* each call's list selected
  p_index,            \* how many of them each call's loop has processed
  p_dp,               \* each call's local dp
  p_result,           \* each call's return value, <<>> until it returns
  ppc                 \* each call's position: "select" | "loop" | "done"

pvars == <<p_metrics, p_selected, p_index, p_dp, p_result, ppc>>

vars == <<qvars, avars, wvars, svars, pvars>>

\* A result of a whole-share entry point.
NoWholeResult == [shares |-> <<>>, cash_remaining |-> 0, raised |-> FALSE]

IdleW ==
  /\ w_metrics = <<>>
  /\ w_amount = 0
  /\ w_num = <<>>
  /\ w_greedy = NoWholeResult
  /\ w_equal = NoWholeResult
  /\ wpc = "idle"

\* float("nan")
NaN == <<>>

IdleS ==
  /\ history = <<>>
  /\ returns = <<>>
  /\ from_history = FALSE
  /\ metrics = [mean |-> NaN, std |-> NaN]
  /\ rate = 0
  /\ sharpe_ratio = NaN
  /\ spc = "idle"

IdleP ==
  /\ p_metrics = <<>>
  /\ p_selected = <<>>
  /\ p_index = <<>>
  /\ p_dp = <<>>
  /\ p_result = <<>>
  /\ ppc = <<>>

Mean(sm, t) == sm[t][1]

Std(sm, t) == sm[t][2]

\* Variant of calculate_sharpe_ratio that tests std_return != 0.
CalculateSharpeRatioNonZeroStd(mean_return, std_return, risk_free_rate) ==
  IF std_return # 0 THEN <<mean_return - risk_free_rate, std_return>> ELSE <<0, 1>>

\* calculate_sharpe_ratio(mean_return, std_return, risk_free_rate) on numbers, as
\* the fraction <<numerator, denominator>> with a positive denominator.
CalculateSharpeRatioAt(mean_return, std_return, risk_free_rate) ==
  IF std_return > 0 THEN <<mean_return - risk_free_rate, std_return>> ELSE <<0, 1>>

\* The call with the default risk_free_rate=RFR.
CalculateSharpeRatio(mean_return, std_return) ==
  CalculateSharpeRatioAt(mean_return, std_return, RFR)

SharpeOf(sm, t) == CalculateSharpeRatio(Mean(sm, t), Std(sm, t))

\* calculate_sharpe_ratio(portfolio_return, np.sqrt(portfolio_variance)) where
\* portfolio_return - RFR = x / d and portfolio_variance = v / d^2: the value
\* x / sqrt(v), or 0 when the standard deviation is not positive.
PortfolioSharpeRatio(x, v) ==
  IF v > 0 THEN [num |-> x, rad |-> v] ELSE [num |-> 0, rad |-> 1]

\* float("-inf")
NegInf == [num |-> -1, rad |-> 0]

\* a > b on Sharpe ratios x / sqrt(v).
ScoreGT(a, b) ==
  IF a.rad = 0 THEN FALSE
  ELSE IF b.rad = 0 THEN TRUE
  ELSE IF Sgn(a.num) # Sgn(b.num) THEN Sgn(a.num) > Sgn(b.num)
  ELSE IF a.num = 0 THEN FALSE
  ELSE IF a.num > 0 THEN CmpFrac(a.num * a.num, a.rad, b.num * b.num, b.rad) = 1
  ELSE CmpFrac(a.num * a.num, a.rad, b.num * b.num, b.rad) = -1

ScoreGE(a, b) == ~ScoreGT(b, a)

\* A weight map {ticker: num[ticker] / den}.
EmptyW == [num |-> <<>>, den |-> 1]

\* The same weights over the smallest common denominator.
Reduce(W) ==
  LET g == GCDOf(Range(W.num) \cup {W.den})
  IN  IF g <= 1 THEN W
      ELSE [num |-> [t \in DOMAIN W.num |-> W.num[t] \div g], den |-> W.den \div g]

\* Variant that leaves the weights as they are.
NormalizeSkipped(W) == W

\* total = sum(allocations.values()); {s: w / total} if total > 0
Normalize(W) ==
  IF SumValues(W.num) > 0 THEN [num |-> W.num, den |-> SumValues(W.num)] ELSE W

\* {s: min(max(w, MIN_ALLOCATION_PER_STOCK), MAX_ALLOCATION_PER_STOCK)}, the
\* bounds being 1 / lowInv and 1 / highInv with highInv a divisor of lowInv.
Clamp(W, lowInv, highInv) ==
  Reduce([num |-> [t \in DOMAIN W.num |->
                     Min(Max(lowInv * W.num[t], W.den), (lowInv \div highInv) * W.den)],
          den |-> lowInv * W.den])

\* "if allocations[stock] > MAX_ALLOCATION_PER_STOCK: allocations[stock] = MAX..."
CapAtMax(W, highInv) ==
  Reduce([num |-> [t \in DOMAIN W.num |-> Min(highInv * W.num[t], W.den)],
          den |-> highInv * W.den])

\* {s: w for s, w in allocations.items() if w >= MIN_ALLOCATION_PER_STOCK}
DropBelowMin(W, lowInv) ==
  [num |-> [t \in {u \in DOMAIN W.num : lowInv * W.num[u] >= W.den} |-> W.num[t]],
   den |-> W.den]

\* sum(allocations[s] * mean_return[s]) - RFR, times the common denominator.
ExcessNum(sm, W) ==
  SumValues([t \in DOMAIN W.num |-> W.num[t] * Mean(sm, t)]) - RFR * W.den

\* sum(allocations[s] ** 2 * std_return[s] ** 2), times the denominator squared.
VarNum(sm, W) ==
  SumValues([t \in DOMAIN W.num |-> W.num[t] * W.num[t] * Std(sm, t) * Std(sm, t)])

PortfolioSharpe(sm, W) == PortfolioSharpeRatio(ExcessNum(sm, W), VarNum(sm, W))

\* The results dictionary computed from an allocation.
Results(sm, W) ==
  [allocations |-> W,
   portfolio_return |-> <<SumValues([t \in DOMAIN W.num |-> W.num[t] * Mean(sm, t)]), W.den>>,
   portfolio_var |-> <<VarNum(sm, W), W.den * W.den>>,
   portfolio_sharpe |-> PortfolioSharpe(sm, W),
   num_stocks |-> Cardinality(DOMAIN W.num),
   raised |-> FALSE]

\* The early return on an empty selection: ({}, all fields 0).
ZeroResults ==
  [allocations |-> EmptyW,
   portfolio_return |-> <<0, 1>>,
   portfolio_var |-> <<0, 1>>,
   portfolio_sharpe |-> [num |-> 0, rad |-> 1],
   num_stocks |-> 0,
   raised |-> FALSE]

\* A call that raised (ZeroDivisionError) returns nothing.
Raised == [ZeroResults EXCEPT !.raised = TRUE]

\* sorted(sharpe_ratios.items(), key=sharpe_ratio, reverse=True): descending,
\* stable, so instruments of equal Sharpe ratio keep their input order.
SharpeGreater(sm, u, t) == SharpeOf(sm, u)[1] * SharpeOf(sm, t)[2] > SharpeOf(sm, t)[1] * SharpeOf(sm, u)[2]

\* Variant of the sort that puts the later of two instruments of equal Sharpe
\* ratio first.
SortedStocksTiesReversed(sm) ==
  LET Before(u, t) == SharpeGreater(sm, u, t) \/ (~SharpeGreater(sm, t, u) /\ u > t)
      Rank(t) == Cardinality({u \in DOMAIN sm : Before(u, t)})
  IN  [r \in 1..Len(sm) |-> CHOOSE t \in DOMAIN sm : Rank(t) = r - 1]

SortedStocks(sm) ==
  LET Before(u, t) == SharpeGreater(sm, u, t) \/ (~SharpeGreater(sm, t, u) /\ u < t)
      Rank(t) == Cardinality({u \in DOMAIN sm : Before(u, t)})
  IN  [r \in 1..Len(sm) |-> CHOOSE t \in DOMAIN sm : Rank(t) = r - 1]

\* sorted_stocks[:target_num_stocks]
SelectTop(sm, k) == SubSeq(SortedStocks(sm), 1, Min(k, Len(sm)))

(***************************************************************************)
(* Greedy proportional allocator (algorithms/greedy.py, greedy.py)         *)
(***************************************************************************)
\* weight = sharpe_ratio / total_sharpe over the selected instruments of
\* positive Sharpe ratio.
Proportional(sm, pos) ==
  LET L == LCMOf({SharpeOf(sm, t)[2] : t \in pos})
      q == [t \in pos |-> SharpeOf(sm, t)[1] * (L \div SharpeOf(sm, t)[2])]
  IN  [num |-> q, den |-> SumValues(q)]

\* Variant that weights the selection equally when no Sharpe ratio is positive.
GreedyAllocationEqualWithoutPositive(sm, k, highInv) ==
  LET pos == {t \in Range(SelectTop(sm, k)) : SharpeOf(sm, t)[1] > 0}
      raw == Proportional(sm, pos)
  IN  IF pos = {}
      THEN [num |-> [t \in Range(SelectTop(sm, k)) |-> 1], den |-> Max(1, Len(SelectTop(sm, k)))]
      ELSE Normalize(IF k <= ConcentratedMax
                     THEN Clamp(raw, MinAllocationInv, highInv)
                     ELSE raw)

\* total_sharpe > 0: proportional weights, clamped for a concentrated
\* portfolio, normalized; otherwise {}.
GreedyAllocation(sm, k, highInv) ==
  LET pos == {t \in Range(SelectTop(sm, k)) : SharpeOf(sm, t)[1] > 0}
      raw == Proportional(sm, pos)
  IN  IF pos = {} THEN EmptyW
      ELSE Normalize(IF k <= ConcentratedMax
                     THEN Clamp(raw, MinAllocationInv, highInv)
                     ELSE raw)

GreedyPortfolioAllocation(sm, k, highInv) ==
  IF SelectTop(sm, k) = <<>> THEN ZeroResults
  ELSE Results(sm, GreedyAllocation(sm, k, highInv))

(***************************************************************************)
(* Equal-weight allocator (equal_weight.py)                                *)
(***************************************************************************)
\* selected_tickers, defaulted and filtered to the tickers of stocks_metrics.
FilterSelection(sm, arg) ==
  LET given == IF arg = <<>> THEN [i \in 1..Len(sm) |-> i] ELSE arg[1]
  IN  SelectSeq(given, LAMBDA t : t \in DOMAIN sm)

\* Variant without the "if n == 0" return: weight = 1.0 / n raises.
EqualWeightNoEmptyCheck(sm, arg) ==
  LET list == FilterSelection(sm, arg)
  IN  IF Len(list) = 0 THEN Raised
      ELSE Results(sm, [num |-> [t \in Range(list) |-> 1], den |-> Len(list)])

\* Variant that divides by the size of the universe instead of the selection.
EqualWeightOverUniverse(sm, arg) ==
  LET list == FilterSelection(sm, arg)
  IN  IF Len(list) = 0 THEN ZeroResults
      ELSE Results(sm, [num |-> [t \in Range(list) |-> 1], den |-> Len(sm)])

EqualWeightAllocation(sm, arg) ==
  LET list == FilterSelection(sm, arg)
      n == Len(list)
      means == SumValues([i \in 1..n |-> Mean(sm, list[i])])
      vars2 == SumValues([i \in 1..n |-> Std(sm, list[i]) * Std(sm, list[i])])
  IN  IF n = 0 THEN ZeroResults
      ELSE [allocations |-> [num |-> [t \in Range(list) |-> 1], den |-> n],
            portfolio_return |-> <<means, n>>,
            portfolio_var |-> <<vars2, n * n>>,
            portfolio_sharpe |-> PortfolioSharpeRatio(means - RFR * n, vars2),
            num_stocks |-> n,
            raised |-> FALSE]

(***************************************************************************)
(* DP knapsack allocator (algorithms/dp_knapsack.py, dp_knapsack.py)       *)
(***************************************************************************)
\* min_u = max(1, int(MIN_ALLOCATION_PER_STOCK * units))
min_u == Max(1, DISCRETIZATION_STEPS \div MinAllocationInv)

\* Variant with a cap of a quarter of the units.
max_u_quarter == DISCRETIZATION_STEPS \div 4

\* max_u = int(MAX_ALLOCATION_PER_STOCK * units)
max_u == DISCRETIZATION_STEPS \div MaxAllocationInv

\* dp = {0: (float("-inf"), {})}; a stored weight alloc_u / units is kept as
\* its number of units.
InitialTable == 0 :> [score |-> NegInf, w |-> <<>>]

\* cand = {**prev_w, stock: w}
Candidate(prev_w, stock, alloc_u) ==
  [s \in DOMAIN prev_w \cup {stock} |-> IF s = stock THEN alloc_u ELSE prev_w[s]]

\* The Sharpe ratio of cand normalized to sum to 1.
CandidateSharpe(sm, cand) ==
  PortfolioSharpe(sm, Normalize([num |-> cand, den |-> DISCRETIZATION_STEPS]))

RECURSIVE ImproveOnTies(_, _, _, _, _, _)
\* Variant of the update that also replaces an entry by a transition of equal
\* score.
ImproveOnTies(sm, d, stock, u, a, cur) ==
  IF a > max_u THEN cur
  ELSE IF u - a \in DOMAIN d
       THEN LET cand == Candidate(d[u - a].w, stock, a)
                sharpe == CandidateSharpe(sm, cand)
            IN  ImproveOnTies(sm, d, stock, u, a + 1,
                              IF cur = <<>> \/ ScoreGE(sharpe, cur[1].score)
                              THEN <<[score |-> sharpe, w |-> cand]>>
                              ELSE cur)
       ELSE ImproveOnTies(sm, d, stock, u, a + 1, cur)

RECURSIVE Improve(_, _, _, _, _, _)
\* The entry of new_dp at level u after the transitions alloc_u = a .. max_u
\* into u (in the loop's order), from the entry cur (<<>>: no entry yet).
Improve(sm, d, stock, u, a, cur) ==
  IF a > max_u THEN cur
  ELSE IF u - a \in DOMAIN d
       THEN LET cand == Candidate(d[u - a].w, stock, a)
                sharpe == CandidateSharpe(sm, cand)
            IN  Improve(sm, d, stock, u, a + 1,
                        IF cur = <<>> \/ ScoreGT(sharpe, cur[1].score)
                        THEN <<[score |-> sharpe, w |-> cand]>>
                        ELSE cur)
       ELSE Improve(sm, d, stock, u, a + 1, cur)

\* Variant of the iteration whose transitions also start from the entries the
\* iteration has just written (no copy of the table).
ProcessStockInPlace(sm, d, stock) ==
  LET Step(e) ==
        LET entry == [u \in 0..DISCRETIZATION_STEPS |->
                        Improve(sm, e, stock, u, min_u,
                                IF u \in DOMAIN e THEN <<e[u]>> ELSE <<>>)]
        IN  [u \in {v \in 0..DISCRETIZATION_STEPS : entry[v] # <<>>} |-> entry[u][1]]
  IN  Step(Step(d))

\* One iteration of "for stock in selected": new_dp = dp.copy(), every
\* transition (alloc_u, prev_u) with prev_u + alloc_u <= units, dp = new_dp.
ProcessStock(sm, d, stock) ==
  LET entry == [u \in 0..DISCRETIZATION_STEPS |->
                  Improve(sm, d, stock, u, min_u,
                          IF u \in DOMAIN d THEN <<d[u]>> ELSE <<>>)]
  IN  [u \in {v \in 0..DISCRETIZATION_STEPS : entry[v] # <<>>} |-> entry[u][1]]

\* The unit levels the final selection looks at.
WindowLevels(d) ==
  {u \in Max(0, DISCRETIZATION_STEPS - WindowUnits)..DISCRETIZATION_STEPS : u \in DOMAIN d}

\* max(..., key=score) and the "if sharpe > best_sharpe" scan: the first level
\* of the highest score.
BestLevel(d) ==
  CHOOSE u \in WindowLevels(d) :
    \A v \in WindowLevels(d) :
      /\ ~ScoreGT(d[v].score, d[u].score)
      /\ v < u => ScoreGT(d[u].score, d[v].score)

\* Variant without the equal-weight fallback.
BestWeightsNoFallback(sel, d) ==
  IF WindowLevels(d) # {} /\ DOMAIN d[BestLevel(d)].w # {}
  THEN [num |-> d[BestLevel(d)].w, den |-> DISCRETIZATION_STEPS]
  ELSE EmptyW

\* best[1] if best[1] else {s: 1.0 / len(selected) for s in selected}
BestWeights(sel, d) ==
  IF WindowLevels(d) # {} /\ DOMAIN d[BestLevel(d)].w # {}
  THEN [num |-> d[BestLevel(d)].w, den |-> DISCRETIZATION_STEPS]
  ELSE [num |-> [t \in Range(sel) |-> 1], den |-> Max(1, Len(sel))]

\* algorithms/dp_knapsack.py: normalize the chosen weights, compute the metrics.
ExtractAlg(sm, sel, d) ==
  IF sel = <<>> THEN ZeroResults
  ELSE Results(sm, Normalize(BestWeights(sel, d)))

\* dp_knapsack.py: normalize, cap at MAX_ALLOCATION_PER_STOCK, drop the weights
\* below MIN_ALLOCATION_PER_STOCK, normalize again, compute the metrics.
ExtractMain(sm, sel, d) ==
  Results(sm, Normalize(DropBelowMin(CapAtMax(Normalize(BestWeights(sel, d)),
                                               MaxAllocationInv),
                                      MinAllocationInv)))

(***************************************************************************)
(* The driver: the allocators are called one after the other on the same   *)
(* stocks_metrics (benchmark.py, archive/compare_algorithms.py)            *)
(***************************************************************************)
\* (mean, std) of an instrument, in units of 0.0277; listed in an order that is
\* not the order of the Sharpe ratios 1/2, -1, 2, 0.
Profiles == << <<3, 2>>, <<1, 1>>, <<4, 1>>, <<3, 0>> >>

\* The universes: every order of up to AllOrdersLen instruments, and the larger
\* ones up to reordering.
Universes ==
  LET ids == UNION {[1..n -> DOMAIN Profiles] : n \in 0..MaxStocks}
      ok(f) == Len(f) <= AllOrdersLen \/ \A i \in 1..(Len(f) - 1) : f[i] <= f[i + 1]
  IN  {[i \in DOMAIN f |-> Profiles[f[i]]] : f \in {g \in ids : ok(g)}}

Targets(n) ==
  IF n <= AllOrdersLen THEN (0..n) \cup {ConcentratedMax, ConcentratedMax + 1}
  ELSE {n - 1, ConcentratedMax}

\* selected_tickers: None, or a list that may repeat a ticker or name one that
\* stocks_metrics does not hold (ticker n + 1).
Selections(n) ==
  {<<>>} \cup {<<l>> : l \in UNION {[1..m -> 1..(n + 1)] : m \in 0..MaxSelLen}}

IdleQ ==
  /\ target_allocations = <<>>
  /\ stock_prices = <<>>
  /\ budget = 0
  /\ rule = "weight"
  /\ shares = <<>>
  /\ actual_spent = <<>>
  /\ cash_remaining = 0
  /\ total_spent = 0
  /\ sweep_count = 0
  /\ actual_allocations = [num |-> <<>>, den |-> 1]
  /\ qpc = "idle"

IdleA ==
  /\ stocks_metrics = <<>>
  /\ target_num_stocks = 0
  /\ selected_tickers = <<>>
  /\ apc = "idle"
  /\ selected = <<>>
  /\ stock_index = 0
  /\ dp = InitialTable
  /\ greedy_alg = ZeroResults
  /\ greedy_main = ZeroResults
  /\ dp_alg = ZeroResults
  /\ dp_main = ZeroResults
  /\ equal_res = ZeroResults

InitA ==
  /\ stocks_metrics \in Universes
  /\ target_num_stocks \in Targets(Len(stocks_metrics))
  /\ selected_tickers = <<>>
  /\ apc = "greedy_alg"
  /\ selected = <<>>
  /\ stock_index = 0
  /\ dp = InitialTable
  /\ greedy_alg = ZeroResults
  /\ greedy_main = ZeroResults
  /\ dp_alg = ZeroResults
  /\ dp_main = ZeroResults
  /\ equal_res = ZeroResults
  /\ IdleQ
  /\ IdleW
  /\ IdleS
  /\ IdleP

\* algorithms/greedy.py greedy_portfolio_allocation
GreedyAlgCall ==
  /\ apc = "greedy_alg"
  /\ greedy_alg' = GreedyPortfolioAllocation(stocks_metrics, target_num_stocks,
                                             GreedyMaxAllocationInv)
  /\ apc' = "greedy_main"
  /\ UNCHANGED <<stock_index, stocks_metrics, target_num_stocks, selected_tickers, selected, dp,
                 greedy_main, dp_alg, dp_main, equal_res, qvars, wvars, svars, pvars>>

\* greedy.py greedy_portfolio_allocation
GreedyMainCall ==
  /\ apc = "greedy_main"
  /\ greedy_main' = GreedyPortfolioAllocation(stocks_metrics, target_num_stocks,
                                              MaxAllocationInv)
  /\ apc' = "dp_select"
  /\ UNCHANGED <<stock_index, stocks_metrics, target_num_stocks, selected_tickers, selected, dp,
                 greedy_alg, dp_alg, dp_main, equal_res, qvars, wvars, svars, pvars>>

\* The DP allocator up to its loop: Sharpe ratios, selection, initial table.
DPSelect ==
  /\ apc = "dp_select"
  /\ selected' = SelectTop(stocks_metrics, target_num_stocks)
  /\ stock_index' = 0
  /\ dp' = InitialTable
  /\ apc' = "dp_loop"
  /\ UNCHANGED <<stocks_metrics, target_num_stocks, selected_tickers, greedy_alg,
                 greedy_main, dp_alg, dp_main, equal_res, qvars, wvars, svars, pvars>>

\* One iteration of the loop over the selected instruments.
DPProcessStock ==
  /\ apc = "dp_loop"
  /\ stock_index < Len(selected)
  /\ dp' = ProcessStock(stocks_metrics, dp, selected[stock_index + 1])
  /\ stock_index' = stock_index + 1
  /\ UNCHANGED <<stocks_metrics, target_num_stocks, selected_tickers, apc, selected,
                 greedy_alg, greedy_main, dp_alg, dp_main, equal_res, qvars, wvars, svars, pvars>>

\* The loop is over: each file's extraction of the allocation from the table.
DPExtract ==
  /\ apc = "dp_loop"
  /\ stock_index = Len(selected)
  /\ dp_alg' = ExtractAlg(stocks_metrics, selected, dp)
  /\ dp_main' = ExtractMain(stocks_metrics, selected, dp)
  /\ apc' = "equal"
  /\ UNCHANGED <<stock_index, stocks_metrics, target_num_stocks, selected_tickers, selected, dp,
                 greedy_alg, greedy_main, equal_res, qvars, wvars, svars, pvars>>

\* equal_weight.py equal_weight_allocation
EqualCall ==
  /\ apc = "equal"
  /\ \E arg \in Selections(Len(stocks_metrics)) :
       /\ selected_tickers' = arg
       /\ equal_res' = EqualWeightAllocation(stocks_metrics, arg)
  /\ apc' = "done"
  /\ UNCHANGED <<stock_index, stocks_metrics, target_num_stocks, selected, dp, greedy_alg,
                 greedy_main, dp_alg, dp_main, qvars, wvars, svars, pvars>>

NextA == GreedyAlgCall \/ GreedyMainCall \/ DPSelect \/ DPProcessStock \/ DPExtract \/ EqualCall

SpecA == InitA /\ [][NextA]_vars

\* Weight maps a caller passes: every key has a positive weight and the weights
\* sum to 1 (or the map is empty).
WeightMaps ==
  {w \in UNION {[1..n -> 1..WeightDen] : n \in 0..MaxQStocks} :
     DOMAIN w = {} \/ SumValues(w) = WeightDen}

PriceValues == {<<>>} \cup {<<p>> : p \in -1..MaxPrice}

PriceTables == UNION {[S -> PriceValues] : S \in SUBSET (1..MaxQStocks)}

InitQ ==
  /\ target_allocations \in WeightMaps
  /\ stock_prices \in PriceTables
  /\ budget \in 0..MaxBudget
  /\ rule \in {"weight", "closeness"}
  /\ shares = <<>>
  /\ actual_spent = <<>>
  /\ cash_remaining = 0
  /\ total_spent = 0
  /\ sweep_count = 0
  /\ actual_allocations = [num |-> <<>>, den |-> 1]
  /\ qpc = "floor"
  /\ IdleA
  /\ IdleW
  /\ IdleS
  /\ IdleP

\* One iteration of "for ticker, target_amount in target_dollars.items()".
QFloorStep ==
  /\ qpc = "floor"
  /\ Len(shares) < Len(target_allocations)
  /\ LET n == FloorEntry(target_allocations, stock_prices, budget, Len(shares) + 1)
     IN  /\ shares' = Append(shares, n.shares)
         /\ actual_spent' = Append(actual_spent, n.spent)
  /\ UNCHANGED <<target_allocations, stock_prices, budget, rule, cash_remaining,
                 total_spent, sweep_count, actual_allocations, qpc, avars, wvars, svars, pvars>>

\* total_spent = sum(actual_spent.values()); cash_remaining = budget - total_spent
QInitialCash ==
  /\ qpc = "floor"
  /\ Len(shares) = Len(target_allocations)
  /\ total_spent' = SumValues(actual_spent)
  /\ cash_remaining' = budget - SumValues(actual_spent)
  /\ qpc' = "sweep"
  /\ UNCHANGED <<target_allocations, stock_prices, budget, rule, shares, actual_spent,
                 sweep_count, actual_allocations, avars, wvars, svars, pvars>>

\* One iteration of the cash sweep that buys a share.
QSweepBuy ==
  /\ qpc = "sweep"
  /\ sweep_count < MaxSweep
  /\ SweepContinues(rule, target_allocations, stock_prices, shares, actual_spent,
                    cash_remaining)
  /\ LET st == BuyOne(rule, target_allocations, stock_prices, shares, actual_spent,
                      cash_remaining)
     IN  /\ shares' = st.shares
         /\ actual_spent' = st.actual_spent
         /\ cash_remaining' = st.cash_remaining
  /\ sweep_count' = sweep_count + 1
  /\ UNCHANGED <<target_allocations, stock_prices, budget, rule, total_spent,
                 actual_allocations, qpc, avars, wvars, svars, pvars>>

\* equal_whole.py: test_spent / test_total raises ZeroDivisionError.
QSweepRaise ==
  /\ qpc = "sweep"
  /\ rule = "closeness"
  /\ cash_remaining > 0
  /\ ClosenessRaises(target_allocations, stock_prices, shares, actual_spent,
                     cash_remaining)
  /\ qpc' = "raised"
  /\ UNCHANGED <<target_allocations, stock_prices, budget, rule, shares, actual_spent,
                 cash_remaining, total_spent, sweep_count, actual_allocations, avars,
                 wvars, svars, pvars>>

\* The loop ends (cash_remaining <= 0, or nothing affordable); total_spent is
\* recomputed, the zero-share entries are dropped and the function returns.
QFinish ==
  /\ qpc = "sweep"
  /\ \/ cash_remaining <= 0
     \/ AffordableStocks(target_allocations, stock_prices, cash_remaining) = {}
  /\ total_spent' = SumValues(actual_spent)
  /\ actual_allocations' = ActualAllocations(actual_spent, budget)
  /\ shares' = [t \in {u \in DOMAIN shares : shares[u] > 0} |-> shares[t]]
  /\ qpc' = "done"
  /\ UNCHANGED <<target_allocations, stock_prices, budget, rule, actual_spent,
                 cash_remaining, sweep_count, avars, wvars, svars, pvars>>

NextQ == QFloorStep \/ QInitialCash \/ QSweepBuy \/ QSweepRaise \/ QFinish

SpecQ == InitQ /\ [][NextQ]_vars

\* The calls followed to their end.
InitQFair == InitQ /\ budget <= MaxFairBudget

\* The call runs on: the interpreter always executes its next statement.
SpecQFair == InitQFair /\ [][NextQ]_vars /\ WF_vars(NextQ)

(***************************************************************************)
(* Whole-share entry points: greedy_whole.greedy_portfolio_allocation and  *)
(* equal_whole.equal_weight_allocation                                     *)
(***************************************************************************)
\* The selected instruments of positive Sharpe ratio, in the order of the
\* selection: the keys of greedy_whole's target_allocations.
PositiveSelected(sm, k) ==
  LET Positive(t) == SharpeOf(sm, t)[1] > 0
  IN  SelectSeq(SelectTop(sm, k), Positive)

\* The weights of W are multiples of 1 / WeightDen.
Representable(W) == WeightDen % Reduce(W).den = 0

\* The target_allocations handed to allocate_whole_shares: the weight of the
\* i-th key as a numerator over WeightDen.
QuantizerTargets(W, keys) ==
  [i \in 1..Len(keys) |-> Reduce(W).num[keys[i]] * (WeightDen \div Reduce(W).den)]

\* get_current_stock_prices(tickers): a price or None for every ticker.
CurrentStockPrices(n) == [1..n -> {<<>>} \cup {<<p>> : p \in 1..MaxPrice}]

\* {"shares": ..., "cash_remaining": ...} of the quantizer's result, the
\* shares keyed by ticker.
WholeResult(keys, r) ==
  [shares |-> [t \in {keys[i] : i \in DOMAIN r.shares} |->
                 r.shares[CHOOSE i \in DOMAIN r.shares : keys[i] = t]],
   cash_remaining |-> r.cash_remaining,
   raised |-> FALSE]

WholeRaised == [NoWholeResult EXCEPT !.raised = TRUE]

\* target_num_stocks of greedy_whole: 10 unless given.
GreedyWholeTarget(num) == IF num = <<>> THEN DefaultTargetNumStocks ELSE num[1]

\* num_stocks of equal_whole: len(stocks_metrics) unless given.
EqualWholeTarget(sm, num) == IF num = <<>> THEN Len(sm) ELSE num[1]

\* greedy_whole.greedy_portfolio_allocation: weights proportional to the
\* positive Sharpe ratios (no clamp), "if not target_allocations" returns the
\* whole amount, else the weight-priority quantizer.
GreedyWholeAllocation(sm, amount, num, prices) ==
  LET keys == PositiveSelected(sm, GreedyWholeTarget(num))
  IN  IF Len(keys) = 0 THEN [shares |-> <<>>, cash_remaining |-> amount, raised |-> FALSE]
      ELSE WholeResult(keys,
             AllocateWholeShares("weight",
               QuantizerTargets(Normalize(Proportional(sm, Range(keys))), keys),
               prices, amount))

\* equal_whole.equal_weight_allocation: equal_weight = 1.0 / len(selected_stocks)
\* raises ZeroDivisionError for an empty selection; else the closeness quantizer.
EqualWholeAllocation(sm, amount, num, prices) ==
  LET keys == SelectTop(sm, EqualWholeTarget(sm, num))
  IN  IF Len(keys) = 0 THEN WholeRaised
      ELSE WholeResult(keys,
             AllocateWholeShares("closeness",
               QuantizerTargets([num |-> [t \in Range(keys) |-> 1], den |-> Len(keys)], keys),
               prices, amount))

\* The calls whose target weights are multiples of 1 / WeightDen.
WholeCallRepresentable(sm, num) ==
  /\ LET keys == PositiveSelected(sm, GreedyWholeTarget(num))
     IN  Len(keys) > 0 => Representable(Proportional(sm, Range(keys)))
  /\ LET n == Len(SelectTop(sm, EqualWholeTarget(sm, num)))
     IN  n > 0 => WeightDen % n = 0

InitW ==
  /\ w_metrics \in {sm \in Universes : Len(sm) <= MaxWholeStocks}
  /\ w_amount \in 0..MaxBudget
  /\ w_num \in {<<>>} \cup {<<k>> : k \in 0..MaxWholeStocks}
  /\ WholeCallRepresentable(w_metrics, w_num)
  /\ w_greedy = NoWholeResult
  /\ w_equal = NoWholeResult
  /\ wpc = "greedy_whole"
  /\ IdleQ
  /\ IdleA
  /\ IdleS
  /\ IdleP

GreedyWholeCall ==
  /\ wpc = "greedy_whole"
  /\ \E prices \in CurrentStockPrices(Len(PositiveSelected(w_metrics, GreedyWholeTarget(w_num)))) :
       w_greedy' = GreedyWholeAllocation(w_metrics, w_amount, w_num, prices)
  /\ wpc' = "equal_whole"
  /\ UNCHANGED <<w_metrics, w_amount, w_num, w_equal, qvars, avars, svars, pvars>>

EqualWholeCall ==
  /\ wpc = "equal_whole"
  /\ \E prices \in CurrentStockPrices(Len(SelectTop(w_metrics, EqualWholeTarget(w_metrics, w_num)))) :
       w_equal' = EqualWholeAllocation(w_metrics, w_amount, w_num, prices)
  /\ wpc' = "done"
  /\ UNCHANGED <<w_metrics, w_amount, w_num, w_greedy, qvars, avars, svars, pvars>>

NextW == GreedyWholeCall \/ EqualWholeCall

SpecW == InitW /\ [][NextW]_vars

(***************************************************************************)
(* Return simulator and scorer (monte_carlo_method.py, helper.py)          *)
(***************************************************************************)
\* Price histories: the prices are 1, 2 or 4, so that every daily return is a
\* whole number of quarters.
Histories == UNION {[1..n -> {1, 2, 4}] : n \in 0..MaxHistory}

\* prices.pct_change().dropna(): one return per row after the first.
CalculateReturns(prices) ==
  [i \in 1..(Len(prices) - 1) |-> (4 * (prices[i + 1] - prices[i])) \div prices[i]]

\* returns.mean(): NaN for an empty series, else the fraction <<sum, count>>.
SeriesMean(r) == IF Len(r) = 0 THEN NaN ELSE <<SumValues(r), Len(r)>>

\* returns[stock].std() squared (sample variance, ddof = 1): NaN for fewer
\* than 2 observations.
SeriesVariance(r) ==
  IF Len(r) < 2 THEN NaN
  ELSE <<Len(r) * SumValues([i \in DOMAIN r |-> r[i] * r[i]]) - SumValues(r) * SumValues(r),
         Len(r) * (Len(r) - 1)>>

\* The metrics monte_carlo_simulation can record for a return series: the
\* draws of np.random.normal are NaN when the mean or the scale is NaN, and
\* random otherwise (with scale 0 the paths coincide and their standard
\* deviation is 0 or a rounding residue).
SimulatedMetrics(r) ==
  IF SeriesMean(r) = NaN \/ SeriesVariance(r) = NaN
  THEN {[mean |-> NaN, std |-> NaN]}
  ELSE {[mean |-> <<m>>, std |-> <<sd>>] :
          m \in (-1)..MaxSimMean,
          sd \in (IF SeriesVariance(r)[1] = 0 THEN 0 ELSE 1)..MaxSimStd}

\* Metrics a caller hands to the scorer directly.
GivenMetrics ==
  {[mean |-> <<m>>, std |-> sd] :
     m \in (-1)..MaxSimMean, sd \in {NaN} \cup {<<v>> : v \in (-1)..MaxSimStd}}

\* calculate_sharpe_ratio on floats: "std_return > 0" is False for NaN, and a
\* NaN mean makes the quotient NaN.
FloatSharpeRatio(mean_return, std_return, risk_free_rate) ==
  IF std_return = NaN THEN <<0, 1>>
  ELSE IF std_return[1] > 0 /\ mean_return = NaN THEN NaN
  ELSE CalculateSharpeRatioAt(IF mean_return = NaN THEN 0 ELSE mean_return[1],
                              std_return[1], risk_free_rate)

InitS ==
  /\ \/ /\ history \in Histories
        /\ from_history = TRUE
        /\ metrics = [mean |-> NaN, std |-> NaN]
        /\ rate = RFR
        /\ spc = "returns"
     \/ /\ history = <<>>
        /\ from_history = FALSE
        /\ metrics \in GivenMetrics
        /\ rate \in 0..RFR
        /\ spc = "score"
  /\ returns = <<>>
  /\ sharpe_ratio = NaN
  /\ IdleQ
  /\ IdleA
  /\ IdleW
  /\ IdleP

\* calculate_returns
CalculateReturnsCall ==
  /\ spc = "returns"
  /\ returns' = CalculateReturns(history)
  /\ spc' = "simulate"
  /\ UNCHANGED <<history, from_history, metrics, rate, sharpe_ratio, qvars, avars, wvars, pvars>>

\* monte_carlo_simulation for the instrument: no check of the series length.
MonteCarloSimulation ==
  /\ spc = "simulate"
  /\ metrics' \in SimulatedMetrics(returns)
  /\ spc' = "score"
  /\ UNCHANGED <<history, returns, from_history, rate, sharpe_ratio, qvars, avars, wvars, pvars>>

\* calculate_sharpe_ratio on the instrument's metrics
ScoreInstrument ==
  /\ spc = "score"
  /\ sharpe_ratio' = FloatSharpeRatio(metrics.mean, metrics.std, rate)
  /\ spc' = "done"
  /\ UNCHANGED <<history, returns, from_history, metrics, rate, qvars, avars, wvars, pvars>>

NextS == CalculateReturnsCall \/ MonteCarloSimulation \/ ScoreInstrument

SpecS == InitS /\ [][NextS]_vars

(***************************************************************************)
(* Two calls of the DP knapsack allocator whose steps are interleaved      *)
(* (algorithms/dp_knapsack.py, dp_knapsack.py)                             *)
(***************************************************************************)
\* The table a call works on: dp is a local variable of the call.
TableShared(call) == 1

TableOf(call) == call

\* The universes of the two calls: the small ones, and one of MaxStocks
\* instruments, for which the table reaches the final window.
PairUniverses ==
  {sm \in Universes : Len(sm) <= MaxPairStocks}
    \cup {[i \in 1..MaxStocks |-> Profiles[((i - 1) % Len(Profiles)) + 1]]}

InitP ==
  /\ p_metrics \in [1..2 -> PairUniverses]
  /\ p_selected = <<<<>>, <<>>>>
  /\ p_index = <<0, 0>>
  /\ p_dp = <<InitialTable, InitialTable>>
  /\ p_result = <<<<>>, <<>>>>
  /\ ppc = <<"select", "select">>
  /\ IdleQ
  /\ IdleA
  /\ IdleW
  /\ IdleS

\* The call up to its loop: Sharpe ratios, selection, dp = {0: (-inf, {})}.
PairSelect(call) ==
  /\ ppc[call] = "select"
  /\ p_selected' = [p_selected EXCEPT ![call] = SelectTop(p_metrics[call], MaxStocks)]
  /\ p_index' = [p_index EXCEPT ![call] = 0]
  /\ p_dp' = [p_dp EXCEPT ![TableOf(call)] = InitialTable]
  /\ ppc' = [ppc EXCEPT ![call] = "loop"]
  /\ UNCHANGED <<p_metrics, p_result, qvars, avars, wvars, svars>>

\* One iteration of the call's loop over its selected instruments.
PairProcessStock(call) ==
  /\ ppc[call] = "loop"
  /\ p_index[call] < Len(p_selected[call])
  /\ p_dp' = [p_dp EXCEPT ![TableOf(call)] =
                ProcessStock(p_metrics[call], p_dp[TableOf(call)],
                             p_selected[call][p_index[call] + 1])]
  /\ p_index' = [p_index EXCEPT ![call] = @ + 1]
  /\ UNCHANGED <<p_metrics, p_selected, p_result, ppc, qvars, avars, wvars, svars>>

\* The call's loop is over: the allocation is extracted and returned.
PairExtract(call) ==
  /\ ppc[call] = "loop"
  /\ p_index[call] = Len(p_selected[call])
  /\ p_result' = [p_result EXCEPT ![call] =
                    <<[alg |-> ExtractAlg(p_metrics[call], p_selected[call], p_dp[TableOf(call)]),
                       main |-> ExtractMain(p_metrics[call], p_selected[call],
                                            p_dp[TableOf(call)])]>>]
  /\ ppc' = [ppc EXCEPT ![call] = "done"]
  /\ UNCHANGED <<p_metrics, p_selected, p_index, p_dp, qvars, avars, wvars, svars>>

NextP ==
  \/ \E call \in DOMAIN ppc : PairSelect(call)
  \/ \E call \in DOMAIN ppc : PairProcessStock(call)
  \/ \E call \in DOMAIN ppc : PairExtract(call)

\* Calls of the allocator and of the quantizer.
InitC == InitP \/ InitQ

NextC == NextP \/ NextQ

SpecC == InitC /\ [][NextC]_vars

(***************************************************************************)
(* The whole model: a quantizer call or a run of the allocators            *)
(***************************************************************************)
Init == InitQ \/ InitA \/ InitW \/ InitS \/ InitP

Next == NextQ \/ NextA \/ NextW \/ NextS \/ NextP

Spec == Init /\ [][Next]_vars

(***************************************************************************)
(* Properties of the share quantizer                                       *)
(***************************************************************************)
\* Every price of the table is positive, None or missing.
ValidPrices == \A t \in DOMAIN stock_prices : stock_prices[t] = <<>> \/ stock_prices[t][1] > 0

\* No price of the table is negative (the calls on which the sweep ends).
NoNegativePrice == \A t \in DOMAIN stock_prices : stock_prices[t] = <<>> \/ stock_prices[t][1] >= 0

\* sum over the instruments of shares x price, on the returned shares map.
SharesValue ==
  SumValues([t \in DOMAIN shares |-> shares[t] * PriceGet(stock_prices, t)[1]])

\* C1: for a weight map summing to 1, a budget >= 0 and a price table of
\* positive or missing prices, the returned total_spent, which is the sum of
\* shares x price, and cash_remaining add up to the budget.
C1_Conservation ==
  (qpc = "done" /\ ValidPrices) =>
    /\ total_spent + cash_remaining = budget
    /\ total_spent = SharesValue

\* C1 witness: a call that returned after floor purchases and sweep purchases.
C1_Witness ==
  /\ qpc = "done"
  /\ ValidPrices
  /\ sweep_count > 0
  /\ total_spent > 0
  /\ cash_remaining > 0
  /\ Cardinality(DOMAIN shares) = 2

\* C2: at every point of the floor allocation and after every sweep purchase
\* the money spent so far is at most the budget, and cash_remaining, once
\* computed, is never negative.
C2_NeverOverspends ==
  /\ SumValues(actual_spent) <= budget
  /\ qpc \in {"sweep", "done", "raised"} => cash_remaining >= 0

\* C2 witness: the sweep has bought a share with the last of the cash.
C2_Witness ==
  /\ qpc = "sweep"
  /\ sweep_count > 0
  /\ cash_remaining = 0
  /\ SumValues(actual_spent) = budget
  /\ budget > 0

\* total_spent of the call with the same weight map, price table and rule on
\* budget b.
TotalSpentFor(b) ==
  AllocateWholeShares(rule, target_allocations, stock_prices, b).total_spent

\* The positive prices of the target instruments.
TargetPrices ==
  {stock_prices[t][1] : t \in {u \in DOMAIN stock_prices \cap DOMAIN target_allocations :
                                 PriceOk(stock_prices[u])}}

\* C3 as claimed: for budgets b1 <= b2 on the same weight map and price
\* table, total_spent for b2 is at least total_spent for b1.
C3_MonotoneSpent ==
  (qpc = "done" /\ NoNegativePrice) =>
    \A b1 \in 0..budget : TotalSpentFor(b1) <= total_spent

\* C3 as amended: for budgets b1 <= b2, total_spent for b2 exceeds total_spent
\* for b1 minus the price of the cheapest target instrument (and equals it, 0,
\* when no target instrument has a positive price).
C3_SpentDropsLessThanCheapest ==
  (qpc = "done" /\ NoNegativePrice) =>
    \A b1 \in 0..budget :
      /\ \A p \in TargetPrices : total_spent > TotalSpentFor(b1) - p
      /\ TargetPrices = {} => total_spent = TotalSpentFor(b1)

\* C3 witness: a returned call whose total_spent is below that of a smaller
\* budget.
C3_Witness ==
  /\ qpc = "done"
  /\ NoNegativePrice
  /\ \E b1 \in 0..budget : TotalSpentFor(b1) > total_spent

\* C10 as claimed: after the floor allocation and after every sweep purchase,
\* an instrument whose price is missing, None, zero or negative has no shares.
C10_NoSharesWithoutPrice ==
  \A t \in DOMAIN shares : ~PriceOk(PriceGet(stock_prices, t)) => shares[t] = 0

\* No instrument of the weight map has a price: each is missing or None.
NoPriceAvailable ==
  \A t \in DOMAIN target_allocations : PriceGet(stock_prices, t) = <<>>

\* C11: when every price of the weight map's instruments is missing or None,
\* allocate_whole_shares does not raise, the sweep buys nothing, and the call
\* returns an empty shares map, total_spent = 0, sweep_count = 0 and
\* cash_remaining = budget.
C11_NoPricesFullBudgetRemains ==
  NoPriceAvailable =>
    /\ qpc # "raised"
    /\ sweep_count = 0
    /\ qpc = "sweep" =>
         ~SweepContinues(rule, target_allocations, stock_prices, shares, actual_spent,
                         cash_remaining)
    /\ qpc = "done" =>
         /\ shares = <<>>
         /\ total_spent = 0
         /\ cash_remaining = budget

\* A returned call on two instruments, one priced None and one missing from
\* the price table, with a positive budget.
C11_Witness ==
  /\ qpc = "done"
  /\ NoPriceAvailable
  /\ Len(target_allocations) = 2
  /\ DOMAIN stock_prices = {1}
  /\ budget > 0
  /\ cash_remaining = budget

\* A weight map with a single instrument at weight 1 and a positive price.
SingleInstrument ==
  /\ target_allocations = <<WeightDen>>
  /\ PriceOk(PriceGet(stock_prices, 1))

\* The number of shares the shares map holds for ticker t (0 when absent).
SharesOf(t) == IF t \in DOMAIN shares THEN shares[t] ELSE 0

\* C12: for a single instrument at weight 1, a budget B >= 0 and a price
\* p > 0, the call returns floor(B / p) shares and cash_remaining
\* B - floor(B / p) * p, and the sweep buys nothing; for B = 1000 and p = 300
\* that is 3 shares, 100 cash and 0 sweep purchases.
C12_SingleInstrumentFloor ==
  /\ (qpc = "done" /\ SingleInstrument) =>
       /\ SharesOf(1) = budget \div stock_prices[1][1]
       /\ cash_remaining = budget - (budget \div stock_prices[1][1]) * stock_prices[1][1]
       /\ sweep_count = 0
  /\ LET r == AllocateWholeShares("weight", <<WeightDen>>, << <<300>> >>, 1000)
     IN  r.shares = <<3>> /\ r.cash_remaining = 100 /\ r.total_spent = 900

\* A returned call that bought several shares and kept some cash.
C12_Witness ==
  /\ qpc = "done"
  /\ SingleInstrument
  /\ rule = "weight"
  /\ SharesOf(1) >= 2
  /\ cash_remaining > 0
  /\ sweep_count = 0

(***************************************************************************)
(* Properties of the allocators                                            *)
(***************************************************************************)
AllocatorsDone == apc = "done"

\* Every weight of W is strictly positive and the weights sum to 1.
PositiveSumToOne(W) ==
  /\ \A t \in DOMAIN W.num : W.num[t] > 0
  /\ W.den > 0
  /\ SumValues(W.num) = W.den

\* Every weight of W lies in [1 / lowInv, 1 / highInv].
WeightsWithin(W, lowInv, highInv) ==
  \A t \in DOMAIN W.num :
    /\ lowInv * W.num[t] >= W.den
    /\ highInv * W.num[t] <= W.den

\* C4: on the same stocks_metrics and target_num_stocks, the portfolio Sharpe
\* ratio of the DP knapsack allocation is at least that of the greedy
\* proportional allocation.
C4_DPAtLeastGreedy ==
  AllocatorsDone => ScoreGE(dp_alg.portfolio_sharpe, greedy_alg.portfolio_sharpe)

\* C5: the weight map returned by the greedy allocator and by the DP knapsack
\* allocator (either file of each) is empty, or all its weights are strictly
\* positive and sum to 1.
C5_EmptyOrSumsToOne ==
  AllocatorsDone =>
    \A r \in {greedy_alg, greedy_main, dp_alg, dp_main} :
      DOMAIN r.allocations.num = {} \/ PositiveSumToOne(r.allocations)

\* A run whose DP table has an entry in the final window, the best of them
\* below the full number of units, so that the normalization changes weights.
C5_Witness ==
  /\ AllocatorsDone
  /\ WindowLevels(dp) # {}
  /\ BestLevel(dp) < DISCRETIZATION_STEPS
  /\ PositiveSumToOne(dp_alg.allocations)
  /\ PositiveSumToOne(dp_main.allocations)
  /\ DOMAIN greedy_alg.allocations.num # {}

\* C6: every weight of the allocation returned by the DP knapsack allocator
\* lies in [MIN_ALLOCATION_PER_STOCK, MAX_ALLOCATION_PER_STOCK].
C6_DPWeightsWithinBounds ==
  AllocatorsDone =>
    /\ WeightsWithin(dp_main.allocations, MinAllocationInv, MaxAllocationInv)
    /\ WeightsWithin(dp_alg.allocations, MinAllocationInv, MaxAllocationInv)

\* C7: with target_num_stocks <= 15 every weight returned by the greedy
\* allocator lies in [MIN_ALLOCATION_PER_STOCK, MAX_ALLOCATION_PER_STOCK] of
\* its file.
C7_GreedyWeightsWithinBounds ==
  (AllocatorsDone /\ target_num_stocks <= ConcentratedMax) =>
    /\ WeightsWithin(greedy_alg.allocations, MinAllocationInv, GreedyMaxAllocationInv)
    /\ WeightsWithin(greedy_main.allocations, MinAllocationInv, MaxAllocationInv)

\* The list equal_weight_allocation works on when every ticker it is given is
\* a distinct key of stocks_metrics: the argument, or all keys for None.
GivenTickers ==
  IF selected_tickers = <<>> THEN [i \in 1..Len(stocks_metrics) |-> i]
  ELSE selected_tickers[1]

AllPresentDistinct ==
  /\ \A i \in DOMAIN GivenTickers : GivenTickers[i] \in DOMAIN stocks_metrics
  /\ \A i, j \in DOMAIN GivenTickers : GivenTickers[i] = GivenTickers[j] => i = j

\* C8: equal_weight_allocation on N >= 1 selected instruments, all present in
\* stocks_metrics, returns exactly those N instruments, each with weight 1/N.
C8_EqualWeights ==
  (AllocatorsDone /\ AllPresentDistinct /\ Len(GivenTickers) >= 1) =>
    /\ ~equal_res.raised
    /\ DOMAIN equal_res.allocations.num = Range(GivenTickers)
    /\ \A t \in Range(GivenTickers) :
         equal_res.allocations.num[t] * Len(GivenTickers) = equal_res.allocations.den
    /\ SumValues(equal_res.allocations.num) = equal_res.allocations.den

\* An explicit list of two instruments taken from a larger universe.
C8_Witness ==
  /\ AllocatorsDone
  /\ selected_tickers # <<>>
  /\ AllPresentDistinct
  /\ Len(GivenTickers) = 2
  /\ Len(stocks_metrics) > 2
  /\ equal_res.allocations.den = 2

\* C9: with an empty universe, or a selection that is empty after the filter
\* or after truncation to target_num_stocks = 0, the equal-weight allocator,
\* algorithms/greedy.py and algorithms/dp_knapsack.py return an empty map and
\* an all-zero summary and raise nothing.
C9_EmptySelectionZeroSummary ==
  AllocatorsDone =>
    /\ (Len(stocks_metrics) = 0 \/ target_num_stocks = 0) =>
         (greedy_alg = ZeroResults /\ dp_alg = ZeroResults)
    /\ FilterSelection(stocks_metrics, selected_tickers) = <<>> =>
         equal_res = ZeroResults

\* A non-empty universe where target_num_stocks = 0 empties the selection of
\* the two ranking allocators and the list given to the equal-weight allocator
\* names only an absent ticker.
C9_Witness ==
  /\ AllocatorsDone
  /\ Len(stocks_metrics) > 0
  /\ target_num_stocks = 0
  /\ selected_tickers = << <<Len(stocks_metrics) + 1>> >>
  /\ equal_res = ZeroResults
  /\ greedy_alg = ZeroResults
  /\ dp_alg = ZeroResults


\* The equal weighting 1/K over the K instruments of sel.
IsEqualWeighting(W, sel) ==
  /\ DOMAIN W.num = Range(sel)
  /\ \A t \in Range(sel) : W.num[t] * Len(sel) = W.den

\* C13: when the DP table holds no state in the final selection window after
\* all selected instruments are processed, both DP allocators return the
\* equal weighting 1/K over the K selected instruments (the empty map for
\* K = 0) and raise nothing.
C13_FallbackEqualWeights ==
  (AllocatorsDone /\ WindowLevels(dp) = {}) =>
    /\ ~dp_alg.raised /\ ~dp_main.raised
    /\ IsEqualWeighting(dp_alg.allocations, selected)
    /\ IsEqualWeighting(dp_main.allocations, selected)
    /\ dp_alg.num_stocks = Len(selected)
    /\ dp_main.num_stocks = Len(selected)

\* Three selected instruments: the table reaches 60 units only.
C13_Witness ==
  /\ AllocatorsDone
  /\ Len(selected) = 3
  /\ stock_index = 3
  /\ WindowLevels(dp) = {}
  /\ dp_main.allocations = [num |-> <<1, 1, 1>>, den |-> 3]

\* No selected instrument has a positive Sharpe ratio.
NoPositiveSharpeSelected ==
  \A t \in Range(SelectTop(stocks_metrics, target_num_stocks)) :
    SharpeOf(stocks_metrics, t)[1] <= 0

\* C14: when no instrument among the top target_num_stocks has a positive
\* Sharpe ratio, both greedy allocators return an empty weight map with
\* num_stocks = 0 and portfolio_sharpe = 0, and raise nothing.
C14_GreedyEmptyWithoutPositiveSharpe ==
  (AllocatorsDone /\ NoPositiveSharpeSelected) =>
    \A r \in {greedy_alg, greedy_main} :
      /\ ~r.raised
      /\ DOMAIN r.allocations.num = {}
      /\ r.num_stocks = 0
      /\ r.portfolio_sharpe.num = 0

\* Two instruments are selected, one of negative and one of zero Sharpe ratio.
C14_Witness ==
  /\ AllocatorsDone
  /\ Len(SelectTop(stocks_metrics, target_num_stocks)) = 2
  /\ NoPositiveSharpeSelected
  /\ \E t \in DOMAIN stocks_metrics : SharpeOf(stocks_metrics, t)[1] < 0
  /\ greedy_alg.num_stocks = 0


\* One iteration of the DP loop takes the table from d to e: every level of d
\* stays, no score decreases, and an entry changes only for a strictly
\* greater score.
TableStepMonotone(d, e) ==
  \A u \in DOMAIN d :
    /\ u \in DOMAIN e
    /\ ScoreGE(e[u].score, d[u].score)
    /\ e[u] # d[u] => ScoreGT(e[u].score, d[u].score)

\* C20: across the iterations of the DP loop every unit level of the table
\* stays present, its score never decreases, and its entry is replaced only
\* by a transition of strictly greater score; an entry no transition improves
\* is carried over unchanged.
C20_TableMonotone == [][DPProcessStock => TableStepMonotone(dp, dp')]_vars

\* After the second instrument, one level still holds the entry of the first
\* instrument alone (carried over) and another level holds both instruments.
C20_Witness ==
  /\ apc = "dp_loop"
  /\ stock_index = 2
  /\ \E u \in DOMAIN dp : DOMAIN dp[u].w = {selected[1]}
  /\ \E u \in DOMAIN dp : DOMAIN dp[u].w = {selected[1], selected[2]}


\* The assignments of units to the first k selected instruments: nothing, or
\* min_u .. max_u units each.
Assignments(k) == [1..k -> {0} \cup (min_u..max_u)]

\* The weight map (in units) of assignment f: the instruments given something.
AssignmentMap(f) ==
  [t \in {selected[i] : i \in {j \in DOMAIN f : f[j] > 0}} |->
     f[CHOOSE i \in DOMAIN f : selected[i] = t]]

\* The weight map w is an assignment to the first k selected instruments
\* whose units sum to u.
IsAssignment(w, k, u) ==
  /\ DOMAIN w \subseteq {selected[i] : i \in 1..k}
  /\ \A t \in DOMAIN w : w[t] \in min_u..max_u
  /\ SumValues(w) = u

\* C18: after the k-th selected instrument is processed (k up to
\* ExhaustiveDepth), the entry of every unit level u >= 1 of the table is an
\* assignment of u units to the first k instruments, its score is the
\* portfolio Sharpe ratio of that assignment, and no assignment of u units has
\* a greater portfolio Sharpe ratio.
C18_TableHoldsBestAssignment ==
  (apc = "dp_loop" /\ stock_index >= 1 /\ stock_index <= ExhaustiveDepth) =>
    /\ \A u \in DOMAIN dp \ {0} :
         /\ IsAssignment(dp[u].w, stock_index, u)
         /\ dp[u].score = CandidateSharpe(stocks_metrics, dp[u].w)
    /\ \A f \in Assignments(stock_index) :
         LET u == SumValues(f)
         IN  (u >= 1 /\ u \in DOMAIN dp) =>
               ScoreGE(dp[u].score, CandidateSharpe(stocks_metrics, AssignmentMap(f)))

\* The last 10 unit levels of the table.
LastTenLevels ==
  {u \in (DISCRETIZATION_STEPS - WindowUnits + 1)..DISCRETIZATION_STEPS : u \in DOMAIN dp}

\* C19: the final selection of the DP allocator looks at the unit levels
\* 91..100 only: the returned weight map is that of a state of the highest
\* score among them, and the selected state is never at another level (90).
C19_SelectionWithinLastTenLevels ==
  (AllocatorsDone /\ WindowLevels(dp) # {}) =>
    /\ BestLevel(dp) \in LastTenLevels
    /\ \E u \in LastTenLevels :
         /\ \A v \in LastTenLevels : ScoreGE(dp[u].score, dp[v].score)
         /\ dp_alg.allocations = Normalize([num |-> dp[u].w, den |-> DISCRETIZATION_STEPS])


(***************************************************************************)
(* Properties of the simulator and the scorer                              *)
(***************************************************************************)
\* C16: the simulator rejects a return series of fewer than 2 observations
\* with an error: it records no metrics for it, and no NaN mean or standard
\* deviation reaches the scorer.
C16_ShortSeriesRejected ==
  (from_history /\ spc \in {"score", "done"}) =>
    /\ Len(returns) >= 2
    /\ metrics.mean # NaN
    /\ metrics.std # NaN

\* C17: calculate_sharpe_ratio returns (mean - risk_free_rate) / std when
\* std > 0 and exactly 0 when std <= 0, for every mean, std and rate; it never
\* divides by zero, and for std > 0 its sign is that of mean - risk_free_rate.
C17_SharpeRatioTotal ==
  (spc = "done" /\ metrics.mean # NaN /\ metrics.std # NaN) =>
    /\ sharpe_ratio # NaN
    /\ sharpe_ratio[2] # 0
    /\ metrics.std[1] > 0 =>
         /\ sharpe_ratio[1] * metrics.std[1] = (metrics.mean[1] - rate) * sharpe_ratio[2]
         /\ Sgn(sharpe_ratio[1]) * Sgn(sharpe_ratio[2]) = Sgn(metrics.mean[1] - rate)
    /\ metrics.std[1] <= 0 => sharpe_ratio[1] = 0

\* A caller-supplied negative standard deviation with mean above a non-default
\* rate: the result is 0.
C17_Witness ==
  /\ spc = "done"
  /\ ~from_history
  /\ metrics.std # NaN
  /\ metrics.std[1] < 0
  /\ metrics.mean[1] > rate
  /\ rate # RFR
  /\ sharpe_ratio = <<0, 1>>


(***************************************************************************)
(* Properties of the whole-share entry points                              *)
(***************************************************************************)
\* C15: greedy_whole.greedy_portfolio_allocation and
\* equal_whole.equal_weight_allocation, called on an empty universe or on a
\* selection that yields no targets, return shares = {} and cash_remaining =
\* budget without raising.
C15_NoTargetsReturnsBudget ==
  wpc = "done" =>
    /\ Len(PositiveSelected(w_metrics, GreedyWholeTarget(w_num))) = 0 =>
         /\ ~w_greedy.raised
         /\ w_greedy.shares = <<>>
         /\ w_greedy.cash_remaining = w_amount
    /\ Len(SelectTop(w_metrics, EqualWholeTarget(w_metrics, w_num))) = 0 =>
         /\ ~w_equal.raised
         /\ w_equal.shares = <<>>
         /\ w_equal.cash_remaining = w_amount


(***************************************************************************)
(* Properties of the greedy selection and weights                          *)
(***************************************************************************)
\* S holds the k instruments of highest Sharpe ratio, an instrument winning a
\* tie against every later one.
IsTopSelection(S, k) ==
  /\ S \subseteq DOMAIN stocks_metrics
  /\ Cardinality(S) = Min(k, Len(stocks_metrics))
  /\ \A t \in S : \A u \in DOMAIN stocks_metrics \ S :
       \/ SharpeGreater(stocks_metrics, t, u)
       \/ ~SharpeGreater(stocks_metrics, u, t) /\ t < u

\* The selection of the greedy allocator, from the definition of the claim.
TopSelection == CHOOSE S \in SUBSET DOMAIN stocks_metrics : IsTopSelection(S, target_num_stocks)

PositiveOfTop == {t \in TopSelection : SharpeOf(stocks_metrics, t)[1] > 0}

\* sharpe_t times the product of the denominators of the positive Sharpe
\* ratios of the selection: the pre-clamp weight of t is
\* ScaledSharpe(t) / ScaledTotal.
RECURSIVE ProductOver(_, _)
ProductOver(S, f) ==
  IF S = {} THEN 1 ELSE LET t == CHOOSE x \in S : TRUE IN f[t] * ProductOver(S \ {t}, f)

ScaledSharpe(t) ==
  SharpeOf(stocks_metrics, t)[1]
    * ProductOver(PositiveOfTop \ {t}, [u \in PositiveOfTop |-> SharpeOf(stocks_metrics, u)[2]])

ScaledTotal == SumValues([t \in PositiveOfTop |-> ScaledSharpe(t)])

\* min(max(pre-clamp weight, 1 / lowInv), 1 / highInv), over lowInv * ScaledTotal.
ClampedScaled(t, lowInv, highInv) ==
  Min(Max(lowInv * ScaledSharpe(t), ScaledTotal), (lowInv \div highInv) * ScaledTotal)

\* W holds exactly the selected instruments of positive Sharpe ratio; without
\* the clamp its weights are the pre-clamp weights, with it they are the
\* clamped pre-clamp weights divided by their sum.
IsGreedyWeighting(W, highInv) ==
  /\ DOMAIN W.num = PositiveOfTop
  /\ \A t \in PositiveOfTop :
       IF target_num_stocks <= ConcentratedMax
       THEN W.num[t] * SumValues([u \in PositiveOfTop |->
                                   ClampedScaled(u, MinAllocationInv, highInv)])
              = W.den * ClampedScaled(t, MinAllocationInv, highInv)
       ELSE W.num[t] * ScaledTotal = W.den * ScaledSharpe(t)

\* C21: the greedy allocator selects the target_num_stocks instruments of
\* highest Sharpe ratio, equal Sharpe ratios keeping their input order, gives
\* each selected instrument of positive Sharpe ratio the pre-clamp weight
\* sharpe_i / (sum of the positive Sharpe ratios of the selection), and returns
\* no selected instrument of Sharpe ratio <= 0.
C21_GreedySelectsTopAndWeighsBySharpe ==
  AllocatorsDone =>
    /\ \E S \in SUBSET DOMAIN stocks_metrics : IsTopSelection(S, target_num_stocks)
    /\ IsGreedyWeighting(greedy_alg.allocations, GreedyMaxAllocationInv)
    /\ IsGreedyWeighting(greedy_main.allocations, MaxAllocationInv)

\* A run that cuts the ranking between two instruments of equal positive Sharpe
\* ratio and returns two instruments of different weights.
C21_Witness ==
  /\ AllocatorsDone
  /\ \E t \in PositiveOfTop : \E u \in DOMAIN stocks_metrics \ TopSelection :
       /\ ~SharpeGreater(stocks_metrics, t, u)
       /\ ~SharpeGreater(stocks_metrics, u, t)
  /\ \E t, u \in DOMAIN greedy_alg.allocations.num :
       greedy_alg.allocations.num[t] # greedy_alg.allocations.num[u]


(***************************************************************************)
(* Properties of the cash sweep                                            *)
(***************************************************************************)
\* The instruments of the weight map whose price in the table is positive.
PricedTargets ==
  {t \in DOMAIN target_allocations \cap DOMAIN stock_prices :
     stock_prices[t] # <<>> /\ stock_prices[t][1] > 0}

\* C22: when allocate_whole_shares returns, no instrument of the weight map
\* with a positive price has price <= cash_remaining.
C22_SweepStopsWhenNothingAffordable ==
  qpc = "done" => \A t \in PricedTargets : stock_prices[t][1] > cash_remaining

\* A call that returned after sweep purchases with cash left over, less than
\* the price of either instrument.
C22_Witness ==
  /\ qpc = "done"
  /\ sweep_count > 0
  /\ cash_remaining > 0
  /\ Cardinality(PricedTargets) = 2
  /\ \A t \in PricedTargets : stock_prices[t][1] > cash_remaining


\* The instruments of the weight map whose price in the table is at most the
\* remaining cash.
PricedAtMostCash ==
  {t \in DOMAIN target_allocations \cap DOMAIN stock_prices :
     stock_prices[t] # <<>> /\ stock_prices[t][1] <= cash_remaining}

\* The step buys one share of the first instrument of C of the highest target
\* weight and takes its price from the cash.
BuysHighestWeightOf(C) ==
  \E t \in C :
    /\ \A u \in C :
         \/ target_allocations[u] < target_allocations[t]
         \/ target_allocations[u] = target_allocations[t] /\ t <= u
    /\ shares' = [shares EXCEPT ![t] = @ + 1]
    /\ cash_remaining' = cash_remaining - stock_prices[t][1]

\* C23 as claimed: every step of the weight-priority sweep buys exactly one
\* share of the instrument of highest target weight among those whose price is
\* <= the remaining cash, the first of the price table on a tie, and reduces
\* cash_remaining by that price.
C23_SweepBuysHighestWeight ==
  [][(QSweepBuy /\ rule = "weight") => BuysHighestWeightOf(PricedAtMostCash)]_vars

\* C23 as amended: the same, among the instruments whose price is not zero and
\* <= the remaining cash.
C23_SweepBuysHighestWeightNonZeroPrice ==
  [][(QSweepBuy /\ rule = "weight") =>
       BuysHighestWeightOf({t \in PricedAtMostCash : stock_prices[t][1] # 0})]_vars

\* The weight-priority sweep has bought a share of the first of two instruments
\* of equal target weight that were both affordable, the other one costing
\* less.
C23_Witness ==
  /\ qpc = "sweep"
  /\ rule = "weight"
  /\ sweep_count = 1
  /\ DOMAIN target_allocations = {1, 2}
  /\ target_allocations[1] = target_allocations[2]
  /\ DOMAIN stock_prices = {1, 2}
  /\ stock_prices[1] # <<>> /\ stock_prices[2] # <<>>
  /\ 0 < stock_prices[2][1]
  /\ stock_prices[2][1] < stock_prices[1][1]
  /\ shares[1] = TruncDiv(target_allocations[1] * budget, WeightDen * stock_prices[1][1]) + 1


\* C24: for every instrument with a positive price the returned share count
\* is a non-negative integer >= floor(weight x budget / price); the returned
\* shares map has no entry of 0 shares; and when total_spent > 0 the returned
\* actual_allocations are shares x price / total_spent per instrument and sum
\* to 1.
C24_SharesAtLeastFloorAndAllocationsSumToOne ==
  qpc = "done" =>
    /\ \A t \in PricedTargets :
         /\ SharesOf(t) >= 0
         /\ SharesOf(t) >= (target_allocations[t] * budget) \div (WeightDen * stock_prices[t][1])
    /\ \A t \in DOMAIN shares : shares[t] # 0
    /\ total_spent > 0 =>
         /\ DOMAIN actual_allocations.num = DOMAIN shares
         /\ \A t \in DOMAIN actual_allocations.num :
              actual_allocations.num[t] * total_spent
                = actual_allocations.den * shares[t] * stock_prices[t][1]
         /\ SumValues(actual_allocations.num) = actual_allocations.den


(***************************************************************************)
(* Properties of calls in progress at the same time                        *)
(***************************************************************************)
RECURSIVE TableAfter(_, _, _)
\* The table of a call that runs alone, after j iterations of its loop.
TableAfter(sm, sel, j) ==
  IF j = 0 THEN InitialTable ELSE ProcessStock(sm, TableAfter(sm, sel, j - 1), sel[j])

\* The return value of a call that runs alone.
AloneResult(sm) ==
  LET sel == SelectTop(sm, MaxStocks)
      d == TableAfter(sm, sel, Len(sel))
  IN  [alg |-> ExtractAlg(sm, sel, d), main |-> ExtractMain(sm, sel, d)]

\* C25: calls share no mutable state: no step of a call changes its inputs
\* (stocks_metrics, target_allocations, stock_prices, budget), the table of a
\* DP call changes only by a step of that call, and each of two interleaved DP
\* calls returns what it returns when it runs alone.
C25_CallsShareNoState ==
  /\ [][/\ p_metrics' = p_metrics
        /\ target_allocations' = target_allocations
        /\ stock_prices' = stock_prices
        /\ budget' = budget
        /\ \A call \in DOMAIN ppc :
             (ppc'[call] = ppc[call] /\ p_index'[call] = p_index[call]) =>
               p_dp'[TableOf(call)] = p_dp[TableOf(call)]]_vars
  /\ [](\A call \in DOMAIN ppc :
          ppc[call] = "done" => p_result[call] = <<AloneResult(p_metrics[call])>>)

\* Both calls have returned, each on its own universe of MaxStocks
\* instruments or fewer, with different results.
C25_Witness ==
  /\ ppc = <<"done", "done">>
  /\ Len(p_metrics[1]) = MaxStocks
  /\ Len(p_metrics[2]) = MaxPairStocks
  /\ p_result[1] # p_result[2]
  /\ p_dp[1] # p_dp[2]


ProcessedStocks == {selected[i] : i \in 1..stock_index}

SelectedFromWindow == WindowLevels(dp) # {} /\ DOMAIN dp[BestLevel(dp)].w # {}

\* C28: when dp_knapsack.py selects a state of the final window, the
\* portfolio_sharpe it reports equals the score the table records for that
\* state, and the returned map has the instruments of that state.
C28_ReportedSharpeIsTableScore ==
  (AllocatorsDone /\ SelectedFromWindow) =>
    /\ ~ScoreGT(dp_main.portfolio_sharpe, dp[BestLevel(dp)].score)
    /\ ~ScoreGT(dp[BestLevel(dp)].score, dp_main.portfolio_sharpe)
    /\ DOMAIN dp_main.allocations.num = DOMAIN dp[BestLevel(dp)].w


(***************************************************************************)
(* Reach of the DP table                                                   *)
(***************************************************************************)
\* The DP allocator has made its selection.
DPSelected == apc \in {"dp_loop", "equal", "done"}

\* C29: with 1 <= K <= 4 selected instruments (K x max_u < 90) no state of the
\* table ever lies in the final window and both DP allocators return the
\* equal weighting 1/K; with K >= 5 the finished table has a state in the
\* window and the fallback is not taken.
C29_FallbackIffFewInstruments ==
  /\ (DPSelected /\ Len(selected) \in 1..4) =>
       /\ \A u \in DOMAIN dp : u < 90
       /\ AllocatorsDone =>
            /\ IsEqualWeighting(dp_alg.allocations, selected)
            /\ IsEqualWeighting(dp_main.allocations, selected)
  /\ (AllocatorsDone /\ Len(selected) >= 5) =>
       /\ \E u \in DOMAIN dp : u \in 90..100
       /\ DOMAIN dp[BestLevel(dp)].w # {}
       /\ dp_alg.allocations = Normalize([num |-> dp[BestLevel(dp)].w, den |-> 100])

\* Four selected instruments of different Sharpe ratios, weighted equally.
C29_Witness ==
  /\ AllocatorsDone
  /\ Len(selected) = 4
  /\ \E t, u \in Range(selected) : SharpeGreater(stocks_metrics, t, u)
  /\ MaxKey(dp) = 80
  /\ IsEqualWeighting(dp_main.allocations, selected)


(***************************************************************************)
(* Consistency of the equal-weight result                                  *)
(***************************************************************************)
\* C30: for every selected_tickers list, one that repeats a ticker or names a
\* ticker absent from stocks_metrics included, the weights returned by
\* equal_weight_allocation sum to 1 (unless the map is empty) and the reported
\* num_stocks is the number of entries of the returned map.
C30_EqualResultConsistent ==
  AllocatorsDone =>
    /\ \/ DOMAIN equal_res.allocations.num = {}
       \/ SumValues(equal_res.allocations.num) = equal_res.allocations.den
    /\ equal_res.num_stocks = Cardinality(DOMAIN equal_res.allocations.num)

====
